---- MODULE Spec2Model ----
(***************************************************************************)
(* The three puzzle scripts of the repository as one state machine:        *)
(*   src/day1.py            ("day1")                                       *)
(*   src/2021/day1/day1.py  ("day1_2021")                                  *)
(*   src/2021/day2/day2.py  ("day2")                                       *)
(* A run picks a script and the text on standard input, then executes the  *)
(* script's top-level statements in order.  A text line is a tuple of      *)
(* one-character strings, so strip(), int() and the regular expression     *)
(* are computed character by character.                                    *)
(***************************************************************************)
EXTENDS Integers, Sequences, FiniteSets, TLC

VARIABLES script, stdin, pc, data, lines, accum, idx, out, err

vars == <<script, stdin, pc, data, lines, accum, idx, out, err>>

(***************************************************************************)
(* Bounds of the model.                                                    *)
(***************************************************************************)
\* longest standard input (in lines) drawn from the lines of MessyLines
MaxMessy == 3
\* longest standard input (in lines) drawn from the lines of CleanLines
MaxClean == 6
\* longest standard input (in lines) of the navigation script
MaxCmds == 3

(***************************************************************************)
(* Text primitives: str.strip(), int(), list subscript and slice, sum().   *)
(***************************************************************************)
Whitespace == {" ", "\n"}

Digits == {"0", "1", "2", "3", "4", "5", "6", "7", "8", "9"}

DigitVal ==
    ("0" :> 0) @@ ("1" :> 1) @@ ("2" :> 2) @@ ("3" :> 3) @@ ("4" :> 4) @@
    ("5" :> 5) @@ ("6" :> 6) @@ ("7" :> 7) @@ ("8" :> 8) @@ ("9" :> 9)

\* sys.stdin.readlines(): every line of the text, its newline kept
readlines(text) == [k \in 1..Len(text) |-> text[k] \o <<"\n">>]

RECURSIVE lstrip(_)
lstrip(s) ==
    IF s # <<>> /\ Head(s) \in Whitespace THEN lstrip(Tail(s)) ELSE s

RECURSIVE rstrip(_)
rstrip(s) ==
    IF s # <<>> /\ s[Len(s)] \in Whitespace
    THEN rstrip(SubSeq(s, 1, Len(s) - 1))
    ELSE s

\* str.strip()
strip(s) == rstrip(lstrip(s))

\* the decimal value of a run of digits
RECURSIVE ParseDigits(_)
ParseDigits(ds) ==
    IF ds = <<>> THEN 0
    ELSE ParseDigits(SubSeq(ds, 1, Len(ds) - 1)) * 10 + DigitVal[ds[Len(ds)]]

AllDigits(s) == s # <<>> /\ \A k \in 1..Len(s) : s[k] \in Digits

\* int(x) accepts surrounding whitespace, an optional sign and digits
\* (the alphabet of the model has no underscore and no non-ASCII digit)
int_raises(x) ==
    LET s == strip(x) IN
    ~ \/ AllDigits(s)
      \/ s # <<>> /\ s[1] \in {"-", "+"} /\ AllDigits(Tail(s))

\* int(x) where it does not raise ValueError
int(x) ==
    LET s == strip(x) IN
    IF s[1] = "-" THEN 0 - ParseDigits(Tail(s))
    ELSE IF s[1] = "+" THEN ParseDigits(Tail(s))
    ELSE ParseDigits(s)

\* a mutant of getitem: an index out of range yields 0 and no IndexError
getitem_default(seq, k) ==
    IF k < Len(seq) THEN [raised |-> FALSE, val |-> seq[k + 1]]
    ELSE [raised |-> FALSE, val |-> 0]

\* seq[k] of a Python list, k >= 0 counted from 0: IndexError out of range
getitem(seq, k) ==
    IF k < Len(seq) THEN [raised |-> FALSE, val |-> seq[k + 1]]
    ELSE [raised |-> TRUE, val |-> 0]

Min(a, b) == IF a < b THEN a ELSE b

\* seq[a:b] of a Python list, 0 <= a <= b counted from 0: never raises
slice(seq, a, b) == SubSeq(seq, a + 1, Min(b, Len(seq)))

RECURSIVE sum(_)
sum(seq) == IF seq = <<>> THEN 0 ELSE Head(seq) + sum(Tail(seq))

(***************************************************************************)
(* Day 1: src/day1.py and src/2021/day1/day1.py.                           *)
(***************************************************************************)
Day1Scripts == {"day1", "day1_2021"}

\* a mutant of keep: the filter tests nothing, so a blank line reaches int()
keep_all(x) == TRUE

\* the filter of the list comprehension, on a stripped line: if x != ''
keep(x) == x # <<>>

\* [int(x) for x in xs if x != '']: the list, or ValueError from int()
RECURSIVE comprehension(_)
comprehension(xs) ==
    IF xs = <<>> THEN [raised |-> FALSE, val |-> <<>>]
    ELSE LET x == Head(xs) IN
         IF ~keep(x) THEN comprehension(Tail(xs))
         ELSE IF int_raises(x) THEN [raised |-> TRUE, val |-> <<>>]
         ELSE LET rest == comprehension(Tail(xs)) IN
              IF rest.raised THEN rest
              ELSE [raised |-> FALSE, val |-> <<int(x)>> \o rest.val]

\* the generator (x.strip() for x in sys.stdin.readlines())
stripped(raw) == [k \in 1..Len(raw) |-> strip(raw[k])]

\* a mutant of increaser: counts a value that is not smaller
increaser_ge(acc, val) ==
    IF val >= acc[2] THEN <<acc[1] + 1, val>> ELSE <<acc[1], val>>

increaser(acc, val) ==
    LET counter == acc[1]
        previous == acc[2]
    IN IF val > previous THEN <<counter + 1, val>> ELSE <<counter, val>>

\* a mutant of windowing: the trailing pair is not shifted
windowing_noshift(acc, val) ==
    LET new_sum == acc[3] + acc[4] + val IN
    <<IF new_sum > acc[2] THEN acc[1] + 1 ELSE acc[1], new_sum, acc[3], val>>

\* windowing of src/day1.py: the accumulator is a 4-tuple
windowing(acc, val) ==
    LET counter == acc[1]
        previous_sum == acc[2]
        spot0 == acc[3]
        spot1 == acc[4]
        new_sum == spot0 + spot1 + val
        new_counter == IF new_sum > previous_sum THEN counter + 1 ELSE counter
    IN <<new_counter, new_sum, spot1, val>>

\* the dataclass of src/2021/day1/day1.py
Accumulator(counter, s, spot, value) ==
    [counter |-> counter, sum |-> s, spot |-> spot, value |-> value]

\* a mutant of windowing_2021: the previous sum is kept when not exceeded
windowing_2021_keepsum(acc, val) ==
    LET new_sum == acc.spot + acc.value + val IN
    IF new_sum > acc.sum
    THEN Accumulator(acc.counter + 1, new_sum, acc.value, val)
    ELSE Accumulator(acc.counter, acc.sum, acc.value, val)

\* windowing of src/2021/day1/day1.py: the accumulator is an Accumulator
windowing_2021(acc, val) ==
    LET counter == acc.counter
        previous_sum == acc.sum
        spot0 == acc.spot
        spot1 == acc.value
        new_sum == spot0 + spot1 + val
        new_counter == IF new_sum > previous_sum THEN counter + 1 ELSE counter
    IN Accumulator(new_counter, new_sum, spot1, val)

\* line 10 of both scripts
ReadData ==
    /\ script \in Day1Scripts
    /\ pc = "read"
    /\ LET r == comprehension(stripped(readlines(stdin))) IN
       IF r.raised
       THEN /\ pc' = "raised"
            /\ err' = "ValueError"
            /\ data' = data
       ELSE /\ pc' = "seed1"
            /\ err' = err
            /\ data' = r.val
    /\ UNCHANGED <<script, stdin, lines, accum, idx, out>>

\* line 12, the arguments of reduce: data[1:] and (0, data[0])
SeedIncreaser ==
    /\ script \in Day1Scripts
    /\ pc = "seed1"
    /\ LET d0 == getitem(data, 0) IN
       IF d0.raised
       THEN /\ pc' = "raised"
            /\ err' = "IndexError"
            /\ UNCHANGED <<accum, idx>>
       ELSE /\ pc' = "fold1"
            /\ err' = err
            /\ accum' = <<0, d0.val>>
            /\ idx' = 2
    /\ UNCHANGED <<script, stdin, data, lines, out>>

\* line 12, one step of reduce(increaser, data[1:], ...)
StepIncreaser ==
    /\ script \in Day1Scripts
    /\ pc = "fold1"
    /\ idx <= Len(data)
    /\ accum' = increaser(accum, data[idx])
    /\ idx' = idx + 1
    /\ UNCHANGED <<script, stdin, pc, data, lines, out, err>>

\* line 12, print("Puzzle 1:", reduce(...)[0])
PrintPuzzle1 ==
    /\ script \in Day1Scripts
    /\ pc = "fold1"
    /\ idx > Len(data)
    /\ out' = Append(out, accum[1])
    /\ pc' = "seed2"
    /\ UNCHANGED <<script, stdin, data, lines, accum, idx, err>>

\* the arguments of the second reduce: data[3:] and
\* (0, sum(data[0:3]), data[1], data[2]), evaluated left to right
SeedWindowing ==
    /\ script \in Day1Scripts
    /\ pc = "seed2"
    /\ LET s  == sum(slice(data, 0, 3))
           d1 == getitem(data, 1)
           d2 == getitem(data, 2)
       IN IF d1.raised \/ d2.raised
          THEN /\ pc' = "raised"
               /\ err' = "IndexError"
               /\ UNCHANGED <<accum, idx>>
          ELSE /\ pc' = "fold2"
               /\ err' = err
               /\ accum' = IF script = "day1"
                           THEN <<0, s, d1.val, d2.val>>
                           ELSE Accumulator(0, s, d1.val, d2.val)
               /\ idx' = 4
    /\ UNCHANGED <<script, stdin, data, lines, out>>

\* one step of reduce(windowing, data[3:], ...)
StepWindowing ==
    /\ script \in Day1Scripts
    /\ pc = "fold2"
    /\ idx <= Len(data)
    /\ accum' = IF script = "day1"
                THEN windowing(accum, data[idx])
                ELSE windowing_2021(accum, data[idx])
    /\ idx' = idx + 1
    /\ UNCHANGED <<script, stdin, pc, data, lines, out, err>>

\* print("Puzzle 2:", reduce(...)[0]): a tuple has an item 0, an
\* Accumulator is not subscriptable and [0] raises TypeError
PrintPuzzle2 ==
    /\ script \in Day1Scripts
    /\ pc = "fold2"
    /\ idx > Len(data)
    /\ IF script = "day1"
       THEN /\ out' = Append(out, accum[1])
            /\ pc' = "done"
            /\ err' = err
       ELSE /\ out' = out
            /\ pc' = "raised"
            /\ err' = "TypeError"
    /\ UNCHANGED <<script, stdin, data, lines, accum, idx>>

(***************************************************************************)
(* Day 2: src/2021/day2/day2.py.                                           *)
(***************************************************************************)
W_up == <<"u", "p">>

W_down == <<"d", "o", "w", "n">>

W_forward == <<"f", "o", "r", "w", "a", "r", "d">>

\* the alternatives of the group "code", in the pattern's order
CodeWords ==
    << [code |-> "up", chars |-> W_up],
       [code |-> "down", chars |-> W_down],
       [code |-> "forward", chars |-> W_forward] >>

StartsWith(s, w) == Len(s) >= Len(w) /\ SubSeq(s, 1, Len(w)) = w

\* [0-9]+ is greedy: the longest run of digits at the head of s
RECURSIVE digit_run(_)
digit_run(s) ==
    IF s # <<>> /\ Head(s) \in Digits
    THEN <<Head(s)>> \o digit_run(Tail(s))
    ELSE <<>>

\* code_pattern.match(s): the pattern (up|down|forward) ([0-9]+) matched at
\* the start of s; what follows the digits is not looked at
code_pattern_match(s) ==
    LET after(k) == SubSeq(s, Len(CodeWords[k].chars) + 2, Len(s))
        hits == {k \in 1..Len(CodeWords) :
                    /\ StartsWith(s, CodeWords[k].chars \o <<" ">>)
                    /\ digit_run(after(k)) # <<>>}
    IN IF hits = {} THEN [matched |-> FALSE, code |-> "", amount |-> <<>>]
       ELSE LET k == CHOOSE h \in hits : \A g \in hits : h <= g IN
            [matched |-> TRUE, code |-> CodeWords[k].code,
             amount |-> digit_run(after(k))]

\* a mutant of move: "up" adds to the depth
move_up_adds(starting_pos, line) ==
    LET m == code_pattern_match(strip(line)) IN
    IF ~m.matched THEN starting_pos
    ELSE IF m.code \in {"up", "down"}
         THEN <<starting_pos[1], starting_pos[2] + int(m.amount)>>
         ELSE <<starting_pos[1] + int(m.amount), starting_pos[2]>>

move(starting_pos, line) ==
    LET horiz == starting_pos[1]
        depth == starting_pos[2]
        m == code_pattern_match(strip(line))
    IN IF m.matched
       THEN LET code == m.code
                amount == int(m.amount)
            IN IF code = "up" THEN <<horiz, depth - amount>>
               ELSE IF code = "down" THEN <<horiz, depth + amount>>
               ELSE <<horiz + amount, depth>>
       ELSE <<horiz, depth>>

\* a mutant of move_with_aim: "down" dives as it does without aim
move_with_aim_down_dives(starting_pos, line) ==
    LET m == code_pattern_match(strip(line)) IN
    IF ~m.matched THEN starting_pos
    ELSE IF m.code = "up"
         THEN <<starting_pos[1], starting_pos[2], starting_pos[3] - int(m.amount)>>
    ELSE IF m.code = "down"
         THEN <<starting_pos[1], starting_pos[2] + int(m.amount), starting_pos[3]>>
    ELSE <<starting_pos[1] + int(m.amount),
           starting_pos[2] + int(m.amount) * starting_pos[3], starting_pos[3]>>

\* a mutant of move_with_aim: "forward" multiplies by the aim after adding
\* the amount to it
move_with_aim_forward_aims(starting_pos, line) ==
    LET m == code_pattern_match(strip(line)) IN
    IF ~m.matched THEN starting_pos
    ELSE IF m.code = "up"
         THEN <<starting_pos[1], starting_pos[2], starting_pos[3] - int(m.amount)>>
    ELSE IF m.code = "down"
         THEN <<starting_pos[1], starting_pos[2], starting_pos[3] + int(m.amount)>>
    ELSE <<starting_pos[1] + int(m.amount),
           starting_pos[2] + int(m.amount) * (starting_pos[3] + int(m.amount)),
           starting_pos[3] + int(m.amount)>>

move_with_aim(starting_pos, line) ==
    LET horiz == starting_pos[1]
        depth == starting_pos[2]
        aim == starting_pos[3]
        m == code_pattern_match(strip(line))
    IN IF m.matched
       THEN LET code == m.code
                amount == int(m.amount)
            IN IF code = "up" THEN <<horiz, depth, aim - amount>>
               ELSE IF code = "down" THEN <<horiz, depth, aim + amount>>
               ELSE <<horiz + amount, depth + amount * aim, aim>>
       ELSE <<horiz, depth, aim>>

\* functools.reduce with move as its function, as a value
RECURSIVE reduce_move(_, _)
reduce_move(seq, initial) ==
    IF seq = <<>> THEN initial
    ELSE move(reduce_move(SubSeq(seq, 1, Len(seq) - 1), initial), seq[Len(seq)])

\* lines = list(sys.stdin.readlines()), and the seed (0,0) of the first reduce
ReadLines ==
    /\ script = "day2"
    /\ pc = "read"
    /\ lines' = readlines(stdin)
    /\ accum' = <<0, 0>>
    /\ idx' = 1
    /\ pc' = "fold1"
    /\ UNCHANGED <<script, stdin, data, out, err>>

\* one step of reduce(move, lines, (0,0))
StepMove ==
    /\ script = "day2"
    /\ pc = "fold1"
    /\ idx <= Len(lines)
    /\ accum' = move(accum, lines[idx])
    /\ idx' = idx + 1
    /\ UNCHANGED <<script, stdin, pc, data, lines, out, err>>

\* the print of Part 1 (H, D, Result), then the seed (0, 0, 0) of the
\* second reduce
PrintPart1 ==
    /\ script = "day2"
    /\ pc = "fold1"
    /\ idx > Len(lines)
    /\ out' = Append(out, <<accum[1], accum[2], accum[1] * accum[2]>>)
    /\ accum' = <<0, 0, 0>>
    /\ idx' = 1
    /\ pc' = "fold2"
    /\ UNCHANGED <<script, stdin, data, lines, err>>

\* one step of reduce(move_with_aim, lines, (0, 0, 0))
StepMoveWithAim ==
    /\ script = "day2"
    /\ pc = "fold2"
    /\ idx <= Len(lines)
    /\ accum' = move_with_aim(accum, lines[idx])
    /\ idx' = idx + 1
    /\ UNCHANGED <<script, stdin, pc, data, lines, out, err>>

\* the print of Part 2 (H, D, Result)
PrintPart2 ==
    /\ script = "day2"
    /\ pc = "fold2"
    /\ idx > Len(lines)
    /\ out' = Append(out, <<accum[1], accum[2], accum[1] * accum[2]>>)
    /\ pc' = "done"
    /\ UNCHANGED <<script, stdin, data, lines, accum, idx, err>>

(***************************************************************************)
(* The inputs of the model.                                                *)
(***************************************************************************)
SeqsUpTo(S, n) == UNION {[1..k -> S] : k \in 0..n}

SeqsFromTo(S, m, n) == UNION {[1..k -> S] : k \in m..n}

\* lines of a day-1 input, blank, numeric and not numeric
MessyLines ==
    { <<>>, <<" ">>, <<"7">>, <<" ", "4", " ">>, <<"-", "2">>, <<"1", "0">>,
      <<"+", "5">>, <<"x">>, <<"1", "x">>, <<"-">> }

\* numeric lines of a day-1 input
CleanLines == { <<"1">>, <<"3">>, <<"-", "2">> }

Example1 ==
    << <<"1", "9", "9">>, <<"2", "0", "0">>, <<"2", "0", "8">>,
       <<"2", "1", "0">>, <<"2", "0", "0">>, <<"2", "0", "7">>,
       <<"2", "4", "0">>, <<"2", "6", "9">>, <<"2", "6", "0">>,
       <<"2", "6", "3">> >>

Example1Values == <<199, 200, 208, 210, 200, 207, 240, 269, 260, 263>>

Day1Inputs ==
    SeqsUpTo(MessyLines, MaxMessy) \cup SeqsFromTo(CleanLines, 4, MaxClean)
        \cup {Example1}

\* the command lines of the model, each with what it says
Commands ==
    { [line |-> W_forward \o <<" ", "5">>, code |-> "forward", amount |-> 5],
      [line |-> W_down \o <<" ", "5">>,    code |-> "down",    amount |-> 5],
      [line |-> W_forward \o <<" ", "8">>, code |-> "forward", amount |-> 8],
      [line |-> W_up \o <<" ", "3">>,      code |-> "up",      amount |-> 3],
      [line |-> W_down \o <<" ", "8">>,    code |-> "down",    amount |-> 8],
      [line |-> W_forward \o <<" ", "2">>, code |-> "forward", amount |-> 2],
      [line |-> <<" ">> \o W_up \o <<" ", "1", "2", " ">>,
                                           code |-> "up",      amount |-> 12] }

CommandLines == {c.line : c \in Commands}

\* lines that are no command: trailing text, no amount, an unknown word,
\* text before the word, a blank line
BadLines ==
    { W_forward \o <<" ", "5", "x">>, W_down \o <<" ", "3", " ", "4">>,
      W_forward, <<"b", "a", "c", "k", " ", "2">>,
      <<"x">> \o W_up \o <<" ", "3">>, <<>> }

Example2 ==
    << W_forward \o <<" ", "5">>, W_down \o <<" ", "5">>,
       W_forward \o <<" ", "8">>, W_up \o <<" ", "3">>,
       W_down \o <<" ", "8">>, W_forward \o <<" ", "2">> >>

Day2Inputs == SeqsUpTo(CommandLines \cup BadLines, MaxCmds) \cup {Example2}

Init ==
    /\ script \in Day1Scripts \cup {"day2"}
    /\ stdin \in IF script = "day2" THEN Day2Inputs ELSE Day1Inputs
    /\ pc = "read"
    /\ data = <<>>
    /\ lines = <<>>
    /\ accum = <<>>
    /\ idx = 0
    /\ out = <<>>
    /\ err = "none"

Next ==
    \/ ReadData
    \/ SeedIncreaser
    \/ StepIncreaser
    \/ PrintPuzzle1
    \/ SeedWindowing
    \/ StepWindowing
    \/ PrintPuzzle2
    \/ ReadLines
    \/ StepMove
    \/ PrintPart1
    \/ StepMoveWithAim
    \/ PrintPart2

Spec == Init /\ [][Next]_vars

(***************************************************************************)
(* What the properties are stated with: the expected results, written      *)
(* without the operators above.                                            *)
(***************************************************************************)
\* the numeric lines of the day-1 inputs, each with its value
LineValues ==
    { [line |-> <<"7">>, val |-> 7], [line |-> <<" ", "4", " ">>, val |-> 4],
      [line |-> <<"-", "2">>, val |-> 0 - 2], [line |-> <<"1", "0">>, val |-> 10],
      [line |-> <<"1">>, val |-> 1], [line |-> <<"3">>, val |-> 3],
      [line |-> <<"+", "5">>, val |-> 5] }
    \cup {[line |-> Example1[k], val |-> Example1Values[k]] : k \in 1..Len(Example1)}

IsNumericLine(l) == \E v \in LineValues : v.line = l

ValueOf(l) == (CHOOSE v \in LineValues : v.line = l).val

IsBlankLine(l) == \A k \in 1..Len(l) : l[k] \in Whitespace

\* the integers of the numeric lines of a text, in their order
NumericValues(text) ==
    LET kept == SelectSeq(text, IsNumericLine) IN
    [k \in 1..Len(kept) |-> ValueOf(kept[k])]

HasMalformedLine(text) ==
    \E k \in 1..Len(text) : ~IsBlankLine(text[k]) /\ ~IsNumericLine(text[k])

\* the number of indices i > 0 with S[i] > S[i-1]
IncreaseCount(S) == Cardinality({k \in 2..Len(S) : S[k] > S[k - 1]})

\* the number of indices i >= 3 whose window sum exceeds the previous one
WindowCount(S) ==
    Cardinality({k \in 4..Len(S) :
        S[k - 2] + S[k - 1] + S[k] > S[k - 3] + S[k - 2] + S[k - 1]})

\* the fields of the windowed accumulator of either script
AccCounter == IF script = "day1" THEN accum[1] ELSE accum.counter

AccSum == IF script = "day1" THEN accum[2] ELSE accum.sum

AccSpot0 == IF script = "day1" THEN accum[3] ELSE accum.spot

AccSpot1 == IF script = "day1" THEN accum[4] ELSE accum.value

\* the windowed reduce has returned
WindowFoldReturned ==
    /\ script \in Day1Scripts
    /\ \/ pc = "fold2" /\ idx > Len(data)
       \/ pc = "done"
       \/ err = "TypeError"

\* the command a raw line of the navigation input is, if it is one
IsCommand(raw) == \E c \in Commands : raw = c.line \o <<"\n">>

CommandOf(raw) == CHOOSE c \in Commands : raw = c.line \o <<"\n">>

\* s is a whole match of ^(up|down|forward) ([0-9]+)$
FullPattern(s) ==
    \E k \in 1..Len(CodeWords), n \in 1..Len(s) :
        /\ Len(s) = Len(CodeWords[k].chars) + 1 + n
        /\ SubSeq(s, 1, Len(CodeWords[k].chars)) = CodeWords[k].chars
        /\ s[Len(CodeWords[k].chars) + 1] = " "
        /\ \A j \in (Len(CodeWords[k].chars) + 2)..Len(s) : s[j] \in Digits

\* a step of the first (pc = "fold1") or second (pc = "fold2") navigation fold
IsMoveStep(p) == script = "day2" /\ pc = p /\ pc' = p

\* the input is well formed: at least 4 integer lines, or commands only
WellFormed ==
    IF script = "day2"
    THEN \A k \in 1..Len(stdin) : stdin[k] \in CommandLines
    ELSE /\ Len(stdin) >= 4
         /\ \A k \in 1..Len(stdin) : IsNumericLine(stdin[k])

(***************************************************************************)
(* The properties.                                                         *)
(***************************************************************************)
C1_Printed ==
    (script \in Day1Scripts /\ Len(out) >= 1) =>
        /\ data # <<>>
        /\ out[1] = IncreaseCount(data)
        /\ (Len(data) = 1 => out[1] = 0)
        /\ (stdin = Example1 => data = Example1Values /\ out[1] = 7)

\* C1: for every non-empty integer sequence the increase-count fold returns
\* the number of indices i > 0 with S[i] > S[i-1]: it is the counter when the
\* reduce has consumed the sequence and the number printed as Puzzle 1; it is
\* 0 for a sequence of length 1 and 7 for 199,200,208,210,200,207,240,269,
\* 260,263.
C1_IncreaseCount ==
    /\ C1_Printed
    /\ (script \in Day1Scripts /\ pc = "fold1") =>
          accum = <<IncreaseCount(SubSeq(data, 1, idx - 1)), data[idx - 1]>>

C1_Witness ==
    /\ script = "day1"
    /\ stdin = Example1
    /\ Len(out) >= 1
    /\ out[1] = 7

\* C2: for every integer sequence of length >= 4 the windowed-count fold
\* returns the number of indices i in [3, len(S)) with S[i-2]+S[i-1]+S[i] >
\* S[i-3]+S[i-2]+S[i-1]; for the example sequence it returns 5 (and
\* src/day1.py prints that count as Puzzle 2).
C2_WindowedCount ==
    (WindowFoldReturned /\ Len(data) >= 4) =>
        /\ AccCounter = WindowCount(data)
        /\ (stdin = Example1 => AccCounter = 5)
        /\ (pc = "done" => out[2] = WindowCount(data))

C2_Witness ==
    /\ script = "day1"
    /\ stdin = Example1
    /\ pc = "done"
    /\ out = <<7, 5>>

C3_Start == (script = "day2" /\ pc = "fold1" /\ idx = 1) => accum = <<0, 0>>

C3_Step ==
    (IsMoveStep("fold1") /\ IsCommand(lines[idx])) =>
        LET c == CommandOf(lines[idx]) IN
        /\ c.code = "forward" => accum' = <<accum[1] + c.amount, accum[2]>>
        /\ c.code = "down" => accum' = <<accum[1], accum[2] + c.amount>>
        /\ c.code = "up" => accum' = <<accum[1], accum[2] - c.amount>>

C3_Report ==
    (script = "day2" /\ pc = "fold1" /\ pc' = "fold2") =>
        out' = <<<<accum[1], accum[2], accum[1] * accum[2]>>>>

C3_Example ==
    (script = "day2" /\ stdin = Example2 /\ Len(out) >= 1) =>
        out[1] = <<15, 10, 150>>

\* C3: without aim the fold starts from (0, 0); "forward n" adds n to
\* horizontal only, "down n" adds n to depth only, "up n" subtracts n from
\* depth only; the report is horizontal, depth and their product of the final
\* pair, and the example input reports 15, 10, 150.
C3_NoAim ==
    /\ [](C3_Start /\ C3_Example)
    /\ [][C3_Step /\ C3_Report]_vars

C3_Witness ==
    /\ script = "day2"
    /\ stdin = Example2
    /\ Len(out) >= 1
    /\ out[1] = <<15, 10, 150>>

C4_Start == (script = "day2" /\ pc = "fold2" /\ idx = 1) => accum = <<0, 0, 0>>

C4_Step ==
    (IsMoveStep("fold2") /\ IsCommand(lines[idx])) =>
        LET c == CommandOf(lines[idx]) IN
        /\ c.code = "forward" =>
              accum' = <<accum[1] + c.amount,
                         accum[2] + c.amount * accum[3], accum[3]>>
        /\ c.code = "down" => accum' = <<accum[1], accum[2], accum[3] + c.amount>>
        /\ c.code = "up" => accum' = <<accum[1], accum[2], accum[3] - c.amount>>

C4_Report ==
    (script = "day2" /\ pc = "fold2" /\ pc' = "done") =>
        out' = Append(out, <<accum[1], accum[2], accum[1] * accum[2]>>)

C4_Example ==
    (script = "day2" /\ stdin = Example2 /\ pc = "done") =>
        out[2] = <<15, 60, 900>>

\* C4: with aim the fold starts from (0, 0, 0); "down n" adds n to aim only,
\* "up n" subtracts n from aim only, "forward n" adds n to horizontal and
\* n times the aim held before the command to depth, aim unchanged; the
\* report is horizontal, depth and their product of the final triple, and the
\* example input reports 15, 60, 900.
C4_WithAim ==
    /\ [](C4_Start /\ C4_Example)
    /\ [][C4_Step /\ C4_Report]_vars

C4_Witness ==
    /\ script = "day2"
    /\ stdin = Example2
    /\ pc = "done"
    /\ out[2] = <<15, 60, 900>>

\* C5: on well-formed input every script ends normally, having printed both
\* of its results: a run that has ended has raised nothing and its output
\* holds two results.
C5_BothPrinted ==
    (WellFormed /\ pc \in {"done", "raised"}) =>
        /\ pc = "done"
        /\ err = "none"
        /\ Len(out) = 2

\* C6: a navigation line that, trimmed, is no whole match of
\* ^(up|down|forward) ([0-9]+)$ is skipped: the step of either fold that
\* consumes it leaves the accumulator unchanged.
C6_BadLineSkipped ==
    [][((IsMoveStep("fold1") \/ IsMoveStep("fold2"))
            /\ ~FullPattern(strip(lines[idx])))
        => accum' = accum]_vars

C8_ShortInputFails ==
    (script \in Day1Scripts /\ pc # "read" /\ err # "ValueError"
        /\ Len(data) < 3) =>
        /\ pc \notin {"fold2", "done"}
        /\ Len(out) <= 1
        /\ (pc = "raised" => err = "IndexError")
        /\ (pc # "raised" => ENABLED Next)

C8_Witness ==
    /\ script \in Day1Scripts
    /\ Len(data) = 2
    /\ pc = "raised"
    /\ err = "IndexError"
    /\ Len(out) = 1

C9_Inv ==
    (script \in Day1Scripts /\ pc = "fold2") =>
        /\ idx >= 4
        /\ idx <= Len(data) + 1
        /\ AccSum = data[idx - 3] + data[idx - 2] + data[idx - 1]
        /\ AccSpot0 = data[idx - 2]
        /\ AccSpot1 = data[idx - 1]
        /\ (idx = 4 => AccCounter = 0)

C9_Step ==
    (script \in Day1Scripts /\ pc = "fold2" /\ pc' = "fold2") =>
        /\ idx' = idx + 1
        /\ AccCounter' \in {AccCounter, AccCounter + 1}

\* C9: in the windowed fold, initially and after every step that consumes
\* S[i], the stored sum is S[i-2]+S[i-1]+S[i] and the trailing values are
\* S[i-1], S[i] (initially the sum of S[0..2] and S[1], S[2], counter 0); the
\* counter never decreases and grows by at most 1 per step.
C9_WindowInvariant == []C9_Inv /\ [][C9_Step]_vars

C9_Witness ==
    /\ script \in Day1Scripts
    /\ pc = "fold2"
    /\ idx = 7
    /\ AccCounter = 1

C10_Inv ==
    (script = "day2" /\ pc \in {"fold2", "done"}) =>
        LET p == reduce_move(SubSeq(lines, 1, idx - 1), <<0, 0>>) IN
        /\ accum[1] = p[1]
        /\ accum[3] = p[2]

C10_Step ==
    (IsMoveStep("fold1") \/ IsMoveStep("fold2")) => accum'[1] >= accum[1]

\* C10: after every prefix of the lines the horizontal of the aim fold equals
\* the horizontal of the no-aim fold over that prefix and its aim equals the
\* no-aim depth; horizontal never decreases in either fold (depth without aim
\* and aim can be negative: the witness).
C10_FoldsAgree == []C10_Inv /\ [][C10_Step]_vars

C10_Witness ==
    /\ script = "day2"
    /\ pc = "fold2"
    /\ idx > 1
    /\ accum[3] < 0
    /\ reduce_move(SubSeq(lines, 1, idx - 1), <<0, 0>>)[2] < 0
    /\ accum[1] > 0

====
